---- MODULE Spec2Model ----
(***************************************************************************)
(* FileObjectStore (storage/filestore/filestore.go) of delta-go: an object *)
(* store kept in a directory tree, on a Unix filesystem (separator "/").   *)
(*                                                                         *)
(* A string is a sequence of one-character strings, so that Join, Split,   *)
(* HasPrefix and TrimPrefix are computed character by character.  The      *)
(* directory tree under BaseURI is fs: a function from a node (the         *)
(* sequence of its name components below BaseURI) to what is there.  An    *)
(* error value is the set of sentinels and errnos errors.Is finds in it;   *)
(* nil is the empty set.  ObjectMeta.LastModified is not modelled.         *)
(***************************************************************************)
EXTENDS Integers, Sequences, FiniteSets, TLC

VARIABLES
  BaseURI,   \* FileObjectStore.BaseURI, as its raw string
  fs,        \* the directory tree under BaseURI
  pre,       \* the tree as it was before the last call
  last,      \* the last call: its arguments and what it returned
  tracking,  \* whether written is kept
  written,   \* the nodes that ever existed, when tracking
  calls,     \* the two concurrent callers of RenameIfNotExists
  slot,      \* the StateStore's single slot: empty, or one CommitState
  puts,      \* the CommitStates the successful Put calls recorded, in order
  got        \* what the last StateStore call returned, when it was a Get

fileVars == <<BaseURI, fs, pre, last, tracking, written, calls>>
stateVars == <<slot, puts, got>>
vars == <<BaseURI, fs, pre, last, tracking, written, calls, slot, puts, got>>

(***************************** bounds **************************************)
\* payload bytes are 1..MaxByte; a payload is empty or one byte long
MaxByte == 1

\* commit versions are 0..MaxVersion
MaxVersion == 5

\* at most MaxPuts calls of StateStore.Put in a behaviour
MaxPuts == 3

\* the names a directory entry can have, in ReadDir's (sorted) order
SortedNames == << <<"a">>, <<"a", "b">> >>
Names == {SortedNames[i] : i \in 1..Len(SortedNames)}
\* the nodes of the tree: the base directory <<>>, and below it a, ab, ab/a,
\* ab/a/a and ab/ab
Nodes ==
  { <<>>,
    << <<"a">> >>,
    << <<"a", "b">> >>,
    << <<"a", "b">>, <<"a">> >>,
    << <<"a", "b">>, <<"a">>, <<"a">> >>,
    << <<"a", "b">>, <<"a", "b">> >> }
\* os.FileInfo.Size() of a directory is system-dependent: nothing on some
\* file systems, a block on others
DirSizes == {0, 4096}
Payloads == {<<>>} \cup {<<b>> : b \in 1..MaxByte}
BaseURIs == { <<"/", "s">>, <<"/", "s", "/">> }
Procs == {1, 2}

(************************ strings (Go standard library) ********************)
Separator == "/"

IsPathSeparator(c) == c = Separator

HasPrefix(s, p) == Len(p) <= Len(s) /\ SubSeq(s, 1, Len(p)) = p

TrimPrefix(s, p) == IF HasPrefix(s, p) THEN SubSeq(s, Len(p) + 1, Len(s)) ELSE s

\* the index of the last separator of s, 0 when there is none
LastSep(s) ==
  LET I == {i \in 1..Len(s) : IsPathSeparator(s[i])}
  IN  IF I = {} THEN 0 ELSE CHOOSE i \in I : \A j \in I : j <= i

\* filepath.Split: everything up to and including the last separator, and the rest
Split(s) == [dir |-> SubSeq(s, 1, LastSep(s)), file |-> SubSeq(s, LastSep(s) + 1, Len(s))]

\* the name components of a path string (empty components dropped); cur is
\* the component being read
RECURSIVE ComponentsFrom(_, _)
ComponentsFrom(s, cur) ==
  IF s = <<>> THEN (IF cur = <<>> THEN <<>> ELSE <<cur>>)
  ELSE IF IsPathSeparator(s[1])
  THEN (IF cur = <<>> THEN ComponentsFrom(Tail(s), <<>>)
        ELSE <<cur>> \o ComponentsFrom(Tail(s), <<>>))
  ELSE ComponentsFrom(Tail(s), Append(cur, s[1]))

Components(s) == ComponentsFrom(s, <<>>)

\* the string of name components c, joined by separators
RECURSIVE Raw(_)
Raw(c) ==
  IF c = <<>> THEN <<>>
  ELSE IF Len(c) = 1 THEN c[1]
  ELSE c[1] \o <<Separator>> \o Raw(Tail(c))

\* filepath.Clean on paths without "." and ".." elements: doubled separators
\* collapse, a trailing separator goes unless the path is the root, "" is "."
Clean(s) ==
  IF s = <<>> THEN <<".">>
  ELSE IF IsPathSeparator(s[1]) THEN <<Separator>> \o Raw(Components(s))
  ELSE Raw(Components(s))

\* filepath.Join and path.Join of two elements: empty elements are ignored,
\* the rest joined by a separator and cleaned; "" when both are empty
JoinOf(a, b) ==
  IF a = <<>> /\ b = <<>> THEN <<>>
  ELSE IF a = <<>> THEN Clean(b)
  ELSE IF b = <<>> THEN Clean(a)
  ELSE Clean(a \o <<Separator>> \o b)

\* the locations and prefixes callers pass
Locations == {Raw(n) : n \in Nodes \ {<<>>}}
Prefixes == {<<>>} \cup Locations \cup {l \o <<Separator>> : l \in Locations}

\* the host paths of the locations and prefixes, as Join gives them and
\* with the trailing separator List adds
HostPaths ==
  LET H == {JoinOf(a, b) : a \in BaseURIs, b \in Prefixes}
  IN  H \cup {h \o <<Separator>> : h \in H}

\* JoinOf, tabulated once on the arguments the store's methods pass
JoinFirst == {<<>>} \cup BaseURIs \cup HostPaths
JoinTab == [a \in JoinFirst |-> [b \in Prefixes |-> JoinOf(a, b)]]
Join(a, b) == IF a \in JoinFirst /\ b \in Prefixes THEN JoinTab[a][b] ELSE JoinOf(a, b)

\* filepath.Dir
Dir(s) == Clean(Split(s).dir)

(************************ the directory tree *******************************)
None == [kind |-> "none", data |-> <<>>]
DirEntry == [kind |-> "dir", data |-> <<>>]
File(b) == [kind |-> "file", data |-> b]

Nil == {}

\* the node a host path names: its components below those of BaseURI
KeyOf(base, path) ==
  LET c == Components(path)
      n == Len(Components(base))
  IN  SubSeq(c, n + 1, Len(c))

\* KeyOf, tabulated once on the host paths
KeyTab == [a \in BaseURIs |-> [b \in HostPaths |-> KeyOf(a, b)]]
Key(base, path) ==
  IF base \in BaseURIs /\ path \in HostPaths THEN KeyTab[base][path] ELSE KeyOf(base, path)

At(f, n) == IF n \in Nodes THEN f[n] ELSE None

Prefix(n, i) == SubSeq(n, 1, i)

IsUnder(k, n) == Len(k) > Len(n) /\ Prefix(k, Len(n)) = n

\* the errno of resolving node n: a leaf object on the way is ENOTDIR,
\* nothing at n is ENOENT
StatErr(f, n) ==
  IF \E i \in 0..(Len(n) - 1) : At(f, Prefix(n, i)).kind = "file" THEN "ENOTDIR"
  ELSE IF At(f, n).kind = "none" THEN "ENOENT"
  ELSE "ok"

\* os.IsNotExist
IsNotExist(errno) == errno = "ENOENT"

\* os.MkdirAll(d): every missing directory down to d is created; a leaf
\* object at d or above it is ENOTDIR and nothing is created
MkdirAll(f, d) ==
  IF \E i \in 0..Len(d) : At(f, Prefix(d, i)).kind = "file"
  THEN [fs |-> f, err |-> {"ENOTDIR"}]
  ELSE [fs |-> [k \in Nodes |-> IF \E i \in 0..Len(d) : k = Prefix(d, i) THEN DirEntry ELSE f[k]],
        err |-> Nil]

\* os.WriteFile(n, b) with O_CREATE|O_TRUNC
WriteFile(f, n, b) ==
  IF At(f, n).kind = "dir" THEN [fs |-> f, err |-> {"EISDIR"}]
  ELSE IF StatErr(f, Prefix(n, Len(n) - 1)) # "ok" THEN [fs |-> f, err |-> {StatErr(f, Prefix(n, Len(n) - 1))}]
  ELSE [fs |-> [f EXCEPT ![n] = File(b)], err |-> Nil]

\* os.ReadFile(n)
ReadFile(f, n) ==
  IF StatErr(f, n) # "ok" THEN [data |-> <<>>, err |-> {StatErr(f, n)}]
  ELSE IF f[n].kind = "dir" THEN [data |-> <<>>, err |-> {"EISDIR"}]
  ELSE [data |-> f[n].data, err |-> Nil]

HasChildren(f, n) == \E k \in Nodes : IsUnder(k, n) /\ f[k].kind # "none"

\* a removal that also removes the directories above n it leaves empty
RemovePruning(f, n) ==
  IF StatErr(f, n) # "ok" THEN [fs |-> f, err |-> {StatErr(f, n)}]
  ELSE IF f[n].kind = "dir" /\ HasChildren(f, n) THEN [fs |-> f, err |-> {"ENOTEMPTY"}]
  ELSE [fs |-> [k \in Nodes |->
                  IF \/ k = n
                     \/ /\ k # <<>>
                        /\ IsUnder(n, k)
                        /\ \A c \in Nodes : (IsUnder(c, k) /\ f[c].kind # "none") =>
                                               (c = n \/ IsUnder(n, c))
                  THEN None ELSE f[k]],
        err |-> Nil]

\* os.Remove(n): unlink, or rmdir of an empty directory
Remove(f, n) ==
  IF StatErr(f, n) # "ok" THEN [fs |-> f, err |-> {StatErr(f, n)}]
  ELSE IF f[n].kind = "dir" /\ HasChildren(f, n) THEN [fs |-> f, err |-> {"ENOTEMPTY"}]
  ELSE [fs |-> [f EXCEPT ![n] = None], err |-> Nil]

\* a move that leaves the source in place (a copy)
MovedKeepingSource(f, n, m) ==
  [k \in Nodes |->
     IF k = m \/ IsUnder(k, m) THEN At(f, n \o SubSeq(k, Len(m) + 1, Len(k)))
     ELSE f[k]]

\* the tree after moving what is at n, with everything below it, to m
Moved(f, n, m) ==
  [k \in Nodes |->
     IF k = m \/ IsUnder(k, m) THEN At(f, n \o SubSeq(k, Len(m) + 1, Len(k)))
     ELSE IF k = n \/ IsUnder(k, n) THEN None
     ELSE f[k]]

\* os.Rename(n, m) on Unix: an existing directory at m is refused before the
\* system call; rename(2) replaces a leaf object at m and moves a directory
\* with what is below it
OsRename(f, n, m) ==
  IF At(f, m).kind = "dir"
  THEN [fs |-> f, err |-> {IF StatErr(f, n) # "ok" THEN StatErr(f, n) ELSE "EEXIST"}]
  ELSE IF StatErr(f, n) # "ok" THEN [fs |-> f, err |-> {StatErr(f, n)}]
  ELSE IF StatErr(f, Prefix(m, Len(m) - 1)) # "ok"
  THEN [fs |-> f, err |-> {StatErr(f, Prefix(m, Len(m) - 1))}]
  ELSE IF At(f, Prefix(m, Len(m) - 1)).kind # "dir" THEN [fs |-> f, err |-> {"ENOTDIR"}]
  ELSE IF n = m THEN [fs |-> f, err |-> Nil]
  ELSE IF f[n].kind = "dir" /\ At(f, m).kind = "file" THEN [fs |-> f, err |-> {"ENOTDIR"}]
  ELSE IF f[n].kind = "dir" /\ IsUnder(m, n) THEN [fs |-> f, err |-> {"EINVAL"}]
  ELSE [fs |-> Moved(f, n, m), err |-> Nil]

\* the move keeps the tree within Nodes
FitsNodes(f, n, m) ==
  \A k \in Nodes : (IsUnder(k, n) /\ f[k].kind # "none") =>
      (m \o SubSeq(k, Len(n) + 1, Len(k))) \in Nodes

(************************ FileObjectStore **********************************)
ErrorObjectDoesNotExist == "ObjectDoesNotExist"
ErrorObjectIsDir == "ObjectIsDir"
ErrorVersionAlreadyExists == "VersionAlreadyExists"
ErrorDeleteObject == "DeleteObject"
ErrorListObjects == "ListObjects"
\* a nil pointer dereference or an index out of range ends the call
Panic == "panic"

\* errors.Is(err, target)
Is(err, target) == target \in err

ZeroMeta == [Location |-> <<>>, Size |-> 0]

\* storage.NewPath: wraps a raw string
NewPath(raw) == raw

\* Path.Join: the normalized concatenation
PathJoin(base, p) == Join(base, p)

\* In the methods below a local operator stands for the code after an
\* assignment: its parameter is the local variable the code assigns.

\* Put without the MkdirAll of the parent directories
StorePutNoMkdirAll(f, base, location, bytes) ==
  WriteFile(f, Key(base, Join(base, location)), bytes)

StorePut(f, base, location, bytes) ==
  LET write(writePath) ==
        LET made(mk) ==
              IF mk.err # Nil THEN [fs |-> f, err |-> mk.err]
              ELSE WriteFile(mk.fs, Key(base, writePath), bytes)
        IN  made(MkdirAll(f, Key(base, Dir(writePath))))
  IN  write(Join(base, location))

StoreGet(f, base, location) ==
  LET read(filePath) == ReadFile(f, Key(base, filePath))
  IN  read(Join(base, location))

\* dirSize is what info.Size() answers for a directory
StoreHead(f, base, location, dirSize) ==
  LET stat(filePath, n) ==
        IF IsNotExist(StatErr(f, n))
        THEN [meta |-> ZeroMeta, err |-> {ErrorObjectDoesNotExist, StatErr(f, n)}]
        ELSE IF StatErr(f, n) # "ok" THEN [meta |-> ZeroMeta, err |-> {Panic}]
        ELSE [meta |-> [Location |-> filePath,
                        Size |-> IF f[n].kind = "dir" THEN dirSize ELSE Len(f[n].data)],
              err |-> IF f[n].kind = "dir" THEN {ErrorObjectIsDir} ELSE Nil]
      head(filePath) == stat(filePath, Key(base, filePath))
  IN  head(Join(base, location))

StoreRename(f, base, from, to) ==
  LET renamed(r) ==
        IF r.err # Nil THEN [fs |-> f, err |-> {ErrorObjectDoesNotExist} \cup r.err]
        ELSE r
  IN  renamed(OsRename(f, Key(base, PathJoin(base, from)), Key(base, PathJoin(base, to))))

\* a check that takes the destination to exist only when Head returns no error
RenameCheckNilOnly(f, base, to) ==
  LET checked(h) ==
        IF Is(h.err, Panic) THEN {Panic}
        ELSE IF h.err = Nil THEN {ErrorVersionAlreadyExists}
        ELSE Nil
  IN  checked(StoreHead(f, base, to, 0))

\* the first half of RenameIfNotExists: the Head(to) check (filestore.go:54-57)
RenameCheck(f, base, to) ==
  LET checked(h) ==
        IF Is(h.err, Panic) THEN {Panic}
        ELSE IF ~Is(h.err, ErrorObjectDoesNotExist) THEN {ErrorVersionAlreadyExists}
        ELSE Nil
  IN  checked(StoreHead(f, base, to, 0))

\* RenameIfNotExists that renames first and reports an existing destination
\* afterwards
StoreRenameThenCheck(f, base, from, to) ==
  LET after(chk) ==
        IF chk # Nil THEN [fs |-> StoreRename(f, base, from, to).fs, err |-> chk]
        ELSE StoreRename(f, base, from, to)
  IN  after(RenameCheck(f, base, to))

StoreRenameIfNotExists(f, base, from, to) ==
  LET after(chk) ==
        IF chk # Nil THEN [fs |-> f, err |-> chk]
        ELSE StoreRename(f, base, from, to)
  IN  after(RenameCheck(f, base, to))

\* Delete returning the error of os.Remove as it is
StoreDeleteUnwrapped(f, base, location) ==
  Remove(f, Key(base, Join(base, location)))

StoreDelete(f, base, location) ==
  LET removed(r) ==
        IF r.err # Nil THEN [fs |-> f, err |-> {ErrorDeleteObject} \cup r.err]
        ELSE r
  IN  removed(Remove(f, Key(base, Join(base, location))))

\* objectMetaFromFileInfo without the directory convention: a directory
\* keeps the size and the location a leaf object would get
objectMetaFromFileInfoPlain(size, name, isDir, parentDir, trimPrefix) ==
  [meta |-> [Location |-> NewPath(TrimPrefix(Join(parentDir, name), trimPrefix)),
             Size |-> size],
   err |-> Nil]

\* location[len(location)-1] of an empty location is an index out of range
objectMetaFromFileInfo(size, name, isDir, parentDir, trimPrefix) ==
  LET meta(location) ==
        IF isDir
        THEN IF location = <<>> THEN [meta |-> ZeroMeta, err |-> {Panic}]
             ELSE [meta |-> [Location |-> NewPath(IF ~IsPathSeparator(location[Len(location)])
                                                    THEN location \o <<Separator>>
                                                    ELSE location),
                             Size |-> 0],
                   err |-> Nil]
        ELSE [meta |-> [Location |-> NewPath(location), Size |-> size], err |-> Nil]
  IN  meta(TrimPrefix(Join(parentDir, name), trimPrefix))

objectMetaFromDirEntry(entry, name, parentDir, trimPrefix) ==
  objectMetaFromFileInfo(Len(entry.data), name, entry.kind = "dir", parentDir, trimPrefix)

\* os.ReadDir(n): nothing for a leaf object or below one
ReadDirErr(f, n) ==
  IF StatErr(f, n) # "ok" THEN StatErr(f, n)
  ELSE IF f[n].kind # "dir" THEN "ENOTDIR"
  ELSE "ok"

NoEntries == [out |-> <<>>, err |-> Nil]

\* out after the entry with metadata m, the listing sub of what is below it
\* and the listing rest of the entries after it; the first error ends the loop
Appended(m, sub, rest) ==
  IF m.err # Nil THEN [out |-> <<>>, err |-> m.err]
  ELSE IF sub.err # Nil THEN [out |-> <<>>, err |-> sub.err]
  ELSE IF rest.err # Nil THEN [out |-> <<>>, err |-> rest.err]
  ELSE [out |-> <<m.meta>> \o sub.out \o rest.out, err |-> Nil]

RECURSIVE listFrom(_, _, _, _, _, _)
\* listFrom with the name-prefix handed down to the directories below
listFromFilterBelow(f, base, baseURI, dir, prefix, i) ==
  IF i = 0
  THEN LET read(errno) ==
             IF IsNotExist(errno) THEN NoEntries
             ELSE IF errno # "ok" THEN [out |-> <<>>, err |-> {errno}]
             ELSE listFrom(f, base, baseURI, dir, prefix, 1)
       IN  read(ReadDirErr(f, Key(base, dir)))
  ELSE IF i > Len(SortedNames) THEN NoEntries
  ELSE
    LET name == SortedNames[i]
        entry(r, rest) ==
          IF r.kind = "none" \/ ~(prefix = <<>> \/ HasPrefix(name, prefix)) THEN rest
          ELSE Appended(objectMetaFromDirEntry(r, name, dir, baseURI),
                        IF r.kind = "dir"
                        THEN listFrom(f, base, baseURI, Join(dir, name), prefix, 0)
                        ELSE NoEntries,
                        rest)
    IN  entry(At(f, Append(Key(base, dir), name)),
              listFrom(f, base, baseURI, dir, prefix, i + 1))

\* listFilesInDirRecursively(baseURI, dir, prefix) when i = 0: os.ReadDir and
\* its errors; its loop from the i-th name of the directory on when i > 0
listFrom(f, base, baseURI, dir, prefix, i) ==
  IF i = 0
  THEN LET read(errno) ==
             IF IsNotExist(errno) THEN NoEntries
             ELSE IF errno # "ok" THEN [out |-> <<>>, err |-> {errno}]
             ELSE listFrom(f, base, baseURI, dir, prefix, 1)
       IN  read(ReadDirErr(f, Key(base, dir)))
  ELSE IF i > Len(SortedNames) THEN NoEntries
  ELSE
    LET name == SortedNames[i]
        entry(r, rest) ==
          IF r.kind = "none" \/ ~(prefix = <<>> \/ HasPrefix(name, prefix)) THEN rest
          ELSE Appended(objectMetaFromDirEntry(r, name, dir, baseURI),
                        IF r.kind = "dir"
                        THEN listFrom(f, base, baseURI, Join(dir, name), <<>>, 0)
                        ELSE NoEntries,
                        rest)
    IN  entry(At(f, Append(Key(base, dir), name)),
              listFrom(f, base, baseURI, dir, prefix, i + 1))

listFilesInDirRecursively(f, base, baseURI, dir, prefix) ==
  listFrom(f, base, baseURI, dir, prefix, 0)

\* List without the explicit entry for the prefix's directory
StoreListNoRootEntry(f, base, prefix) ==
  LET filePrefix == Split(prefix).file
      baseURI == IF ~IsPathSeparator(base[Len(base)]) THEN base \o <<Separator>> ELSE base
      listed(files) ==
        IF files.err # Nil THEN [out |-> <<>>, err |-> {ErrorListObjects} \cup files.err]
        ELSE files
      list(joined) ==
        listed(listFilesInDirRecursively(f, base, baseURI,
                   IF filePrefix = <<>> /\ ~IsPathSeparator(joined[Len(joined)])
                   THEN joined \o <<Separator>> ELSE joined,
                   filePrefix))
  IN  list(Join(base, Split(prefix).dir))

\* fullDir[len(fullDir)-1] and baseURI[len(baseURI)-1] of an empty string
\* are an index out of range
StoreList(f, base, prefix) ==
  LET dir == Split(prefix).dir
      filePrefix == Split(prefix).file
      baseURI == IF ~IsPathSeparator(base[Len(base)]) THEN base \o <<Separator>> ELSE base
      withRoot(files, errno, m) ==
        IF errno # "ok" /\ ~IsNotExist(errno) THEN [out |-> <<>>, err |-> {ErrorListObjects, errno}]
        ELSE IF errno # "ok" THEN files
        ELSE IF m.err # Nil THEN [out |-> <<>>, err |-> {ErrorListObjects} \cup m.err]
        ELSE [out |-> files.out \o <<m.meta>>, err |-> Nil]
      listed(joined, files) ==
        IF files.err # Nil THEN [out |-> <<>>, err |-> {ErrorListObjects} \cup files.err]
        ELSE IF dir # <<>> /\ filePrefix = <<>>
        THEN withRoot(files, StatErr(f, Key(base, joined)),
                      objectMetaFromFileInfo(0, dir, TRUE, <<>>, baseURI))
        ELSE files
      list(joined) ==
        IF (filePrefix = <<>> /\ joined = <<>>) \/ base = <<>> THEN [out |-> <<>>, err |-> {Panic}]
        ELSE listed(joined,
                    listFilesInDirRecursively(f, base, baseURI,
                        IF filePrefix = <<>> /\ ~IsPathSeparator(joined[Len(joined)])
                        THEN joined \o <<Separator>> ELSE joined,
                        filePrefix))
  IN  list(Join(base, dir))

(************************ StateStore ***************************************)
ErrorStateIsEmpty == "StateIsEmpty"
ErrorCanNotReadState == "CanNotReadState"
ErrorCanNotWriteState == "CanNotWriteState"

Versions == 0..MaxVersion

CommitState(v) == [Version |-> v]

CommitStates == {CommitState(v) : v \in Versions}

\* StateStore.Put that records only when nothing is recorded yet
StateStorePutIfEmpty(s, c, accepted) ==
  IF ~accepted THEN [slot |-> s, err |-> {ErrorCanNotWriteState}]
  ELSE [slot |-> IF s = <<>> THEN <<c>> ELSE s, err |-> Nil]

\* StateStore.Put(c) on slot s: the slot holds c, unless the backing medium
\* rejects the write (accepted is its answer)
StateStorePut(s, c, accepted) ==
  IF ~accepted THEN [slot |-> s, err |-> {ErrorCanNotWriteState}]
  ELSE [slot |-> <<c>>, err |-> Nil]

\* StateStore.Get() on slot s, of a readable backing medium
StateStoreGet(s) ==
  IF s = <<>> THEN [state |-> CommitState(0), err |-> {ErrorStateIsEmpty}]
  ELSE [state |-> s[1], err |-> Nil]

NotGot == [called |-> FALSE, state |-> CommitState(0), err |-> Nil]

(************************ state and operations *****************************)
EmptyTree == [k \in Nodes |-> None]

Existing(f) == {k \in Nodes : f[k].kind # "none"}

\* a call that has ended: loc is its location, its prefix or its destination
Rec(op, loc, from, bytes, err, data, meta, out) ==
  [op |-> op, loc |-> loc, from |-> from, bytes |-> bytes, err |-> err,
   data |-> data, meta |-> meta, out |-> out]

\* a caller of RenameIfNotExists: where it is, its arguments, what was at
\* from and at to when it began, its result
Idle == [pc |-> "idle", from |-> <<>>, to |-> <<>>, staged |-> None, toWas |-> None, err |-> Nil]

NodeOf(location) == Key(BaseURI, Join(BaseURI, location))

Start ==
  /\ BaseURI \in BaseURIs
  /\ fs \in {EmptyTree, [EmptyTree EXCEPT ![<<>>] = DirEntry]}
  /\ pre = fs
  /\ last = Rec("none", <<>>, <<>>, <<>>, Nil, <<>>, ZeroMeta, <<>>)
  /\ written = Existing(fs)
  /\ calls = [p \in Procs |-> Idle]
  /\ slot = <<>>
  /\ puts = <<>>
  /\ got = NotGot

Init == Start /\ tracking = FALSE

\* What a call leaves.  pre and last describe one call, the call under
\* observation, which is the last one of a behaviour: of the calls before it
\* only the tree they leave is kept.  No call reads pre or last, so the call
\* under observation finds every tree that calls can leave.
Ended(f, rec) ==
  /\ last.op = "none"
  /\ fs' = f
  /\ \E observed \in BOOLEAN :
        /\ pre' = IF observed THEN fs ELSE f
        /\ last' = IF observed THEN rec ELSE last
  /\ written' = IF tracking THEN written \cup Existing(f) ELSE written
  /\ UNCHANGED <<BaseURI, tracking, calls, stateVars>>

CallPut(location, bytes) ==
  /\ location \in Locations /\ bytes \in Payloads
  /\ LET returned(r) == Ended(r.fs, Rec("Put", location, <<>>, bytes, r.err, <<>>, ZeroMeta, <<>>))
     IN  returned(StorePut(fs, BaseURI, location, bytes))

CallGet(location) ==
  /\ location \in Locations
  /\ LET returned(r) == Ended(fs, Rec("Get", location, <<>>, <<>>, r.err, r.data, ZeroMeta, <<>>))
     IN  returned(StoreGet(fs, BaseURI, location))

CallHead(location, dirSize) ==
  /\ location \in Locations /\ dirSize \in DirSizes
  /\ LET returned(r) == Ended(fs, Rec("Head", location, <<>>, <<>>, r.err, <<>>, r.meta, <<>>))
     IN  returned(StoreHead(fs, BaseURI, location, dirSize))

CallRename(from, to) ==
  /\ FitsNodes(fs, NodeOf(from), NodeOf(to))
  /\ LET returned(r) == Ended(r.fs, Rec("Rename", to, from, <<>>, r.err, <<>>, ZeroMeta, <<>>))
     IN  returned(StoreRename(fs, BaseURI, from, to))

CallRenameIfNotExists(from, to) ==
  /\ FitsNodes(fs, NodeOf(from), NodeOf(to))
  /\ LET returned(r) == Ended(r.fs, Rec("RenameIfNotExists", to, from, <<>>, r.err, <<>>, ZeroMeta, <<>>))
     IN  returned(StoreRenameIfNotExists(fs, BaseURI, from, to))

CallDelete(location) ==
  /\ location \in Locations
  /\ LET returned(r) == Ended(r.fs, Rec("Delete", location, <<>>, <<>>, r.err, <<>>, ZeroMeta, <<>>))
     IN  returned(StoreDelete(fs, BaseURI, location))

CallList(prefix) ==
  /\ prefix \in Prefixes
  /\ LET returned(r) == Ended(fs, Rec("List", prefix, <<>>, <<>>, r.err, <<>>, ZeroMeta, r.out))
     IN  returned(StoreList(fs, BaseURI, prefix))

Next ==
  \/ \E l \in Locations, b \in Payloads : CallPut(l, b)
  \/ \E l \in Locations : CallGet(l)
  \/ \E l \in Locations, d \in DirSizes : CallHead(l, d)
  \/ \E l \in Locations, m \in Locations : CallRename(l, m)
  \/ \E l \in Locations, m \in Locations : CallRenameIfNotExists(l, m)
  \/ \E l \in Locations : CallDelete(l)
  \/ \E p \in Prefixes : CallList(p)

Spec == Init /\ [][Next]_vars

\* the calls that change the tree, and Head, with the history of what was
\* ever made to exist
InitHist == Start /\ tracking = TRUE

NextHist ==
  \/ \E l \in Locations, b \in Payloads : CallPut(l, b)
  \/ \E l \in Locations, d \in DirSizes : CallHead(l, d)
  \/ \E l \in Locations, m \in Locations : CallRename(l, m)
  \/ \E l \in Locations : CallDelete(l)

SpecHist == InitHist /\ [][NextHist]_vars

(************************ the StateStore's calls **************************)
CallStatePut(c, accepted) ==
  /\ c \in CommitStates /\ Len(puts) < MaxPuts
  /\ LET returned(r) ==
           /\ slot' = r.slot
           /\ puts' = IF r.err = Nil THEN Append(puts, c) ELSE puts
     IN  returned(StateStorePut(slot, c, accepted))
  /\ got' = NotGot
  /\ UNCHANGED fileVars

CallStateGet ==
  /\ LET returned(r) == got' = [called |-> TRUE, state |-> r.state, err |-> r.err]
     IN  returned(StateStoreGet(slot))
  /\ UNCHANGED <<slot, puts>>
  /\ UNCHANGED fileVars

NextState ==
  \/ \E c \in CommitStates, accepted \in BOOLEAN : CallStatePut(c, accepted)
  \/ CallStateGet

SpecState == Init /\ [][NextState]_vars

(************************ two callers of RenameIfNotExists ******************)
\* the staging locations and the commit slot the callers race for
RaceFrom == {Raw(<< <<"a", "b">>, <<"a", "b">> >>), Raw(<< <<"a", "b">>, <<"a">>, <<"a">> >>)}
RaceTo == {Raw(<< <<"a">> >>)}

\* a writer stages its content before it calls
Stage(location, bytes) ==
  /\ \A p \in Procs : calls[p].pc = "idle"
  /\ fs' = StorePut(fs, BaseURI, location, bytes).fs
  /\ UNCHANGED <<BaseURI, pre, last, tracking, written, calls, stateVars>>

\* filestore.go:54-57: Head(to), and the return when it is not ObjectDoesNotExist
RineCheck(p, from, to) ==
  /\ calls[p].pc = "idle"
  /\ LET chk == RenameCheck(fs, BaseURI, to)
     IN  calls' = [calls EXCEPT ![p] =
                     [pc |-> IF chk = Nil THEN "checked" ELSE "done",
                      from |-> from, to |-> to,
                      staged |-> fs[NodeOf(from)], toWas |-> fs[NodeOf(to)],
                      err |-> chk]]
  /\ UNCHANGED <<BaseURI, fs, pre, last, tracking, written, stateVars>>

\* filestore.go:59-63: the rename, and the return
RineRename(p) ==
  /\ calls[p].pc = "checked"
  /\ LET r == StoreRename(fs, BaseURI, calls[p].from, calls[p].to)
     IN  /\ fs' = r.fs
         /\ calls' = [calls EXCEPT ![p].pc = "done", ![p].err = r.err]
  /\ UNCHANGED <<BaseURI, pre, last, tracking, written, stateVars>>

NextRace ==
  \/ \E l \in RaceFrom, b \in Payloads : Stage(l, b)
  \/ \E p \in Procs, l \in RaceFrom, m \in RaceTo : RineCheck(p, l, m)
  \/ \E p \in Procs : RineRename(p)

SpecRace == Init /\ [][NextRace]_vars

\* the tree is a tree: what exists lies in a directory
TreeOk == \A k \in Nodes \ {<<>>} : fs[k].kind # "none" => fs[Prefix(k, Len(k) - 1)].kind = "dir"

(************************ C1 ***********************************************)
BothDone(c1, c2) ==
  /\ c1.pc = "done" /\ c2.pc = "done"
  /\ c1.to = c2.to /\ c1.from # c2.from
  /\ c1.staged.kind = "file" /\ c2.staged.kind = "file"
  /\ c1.toWas.kind = "none" /\ c2.toWas.kind = "none"

Won(c, d) ==
  /\ c.err = Nil
  /\ Is(d.err, ErrorVersionAlreadyExists)
  /\ fs[NodeOf(c.to)] = c.staged

\* C1: of two concurrent RenameIfNotExists(stagingA, p) and
\* RenameIfNotExists(stagingB, p), with objects staged and nothing at p when
\* each begins, exactly one succeeds, the other fails with
\* VersionAlreadyExists, and p holds what the one that succeeded had staged.
C1_ExactlyOneWins ==
  BothDone(calls[1], calls[2]) =>
    (Won(calls[1], calls[2]) \/ Won(calls[2], calls[1]))

(************************ what the last call saw and left *******************)
Parent(n) == Prefix(n, Len(n) - 1)

\* a leaf object lies above node n in tree f
BelowObject(f, n) == \E i \in 0..(Len(n) - 1) : f[Prefix(n, i)].kind = "file"

\* the tree f outside the nodes in S is as it was
SameExcept(f, g, S) == \A k \in Nodes \ S : f[k] = g[k]

Range(q) == {q[i] : i \in 1..Len(q)}

(************************ C2 ***********************************************)
\* C2: RenameIfNotExists(from, to) called while something exists at to, a
\* leaf object or a directory, fails with VersionAlreadyExists and nothing
\* else, and changes nothing: Get(from) answers as before the call.
C2_ExistingDestinationRefused ==
  (last.op = "RenameIfNotExists" /\ pre[NodeOf(last.loc)].kind # "none") =>
     /\ last.err = {ErrorVersionAlreadyExists}
     /\ fs = pre
     /\ StoreGet(fs, BaseURI, last.from) = StoreGet(pre, BaseURI, last.from)

C2_Witness ==
  /\ last.op = "RenameIfNotExists"
  /\ pre[NodeOf(last.loc)].kind = "dir"
  /\ pre[NodeOf(last.from)].kind = "file"
  /\ StoreGet(fs, BaseURI, last.from).data = pre[NodeOf(last.from)].data
  /\ Is(last.err, ErrorVersionAlreadyExists)

(************************ C3 ***********************************************)
\* C3 as claimed: Put(p, b) succeeds in every state, and a Get(p) after it
\* returns b.
C3_PutAlwaysSucceeds ==
  last.op = "Put" =>
     /\ last.err = Nil
     /\ StoreGet(fs, BaseURI, last.loc) = [data |-> last.bytes, err |-> Nil]

\* p can hold an object: it is no directory and no leaf object lies above it
Writable(f, n) == f[n].kind # "dir" /\ ~BelowObject(f, n)

\* C3, amended: where p is not a directory and no leaf object lies above p,
\* Put(p, b) succeeds and a Get(p) after it returns exactly b; where p is a
\* directory or a leaf object lies above p, Put(p, b) fails and changes
\* nothing.
C3_PutThenGet ==
  last.op = "Put" =>
     LET n == NodeOf(last.loc)
     IN  /\ Writable(pre, n) =>
               /\ last.err = Nil
               /\ StoreGet(fs, BaseURI, last.loc) = [data |-> last.bytes, err |-> Nil]
         /\ ~Writable(pre, n) => (last.err # Nil /\ fs = pre)

C3_Witness ==
  /\ last.op = "Put"
  /\ last.err = Nil
  /\ pre[Parent(NodeOf(last.loc))].kind = "none"
  /\ Len(NodeOf(last.loc)) > 1
  /\ last.bytes # <<>>
  /\ StoreGet(fs, BaseURI, last.loc).data = last.bytes

(************************ C4 ***********************************************)
\* C4: Get(location) where no object exists fails with an error that is
\* ErrorObjectDoesNotExist.
C4_GetAbsentIsObjectDoesNotExist ==
  (last.op = "Get" /\ pre[NodeOf(last.loc)].kind = "none") =>
     Is(last.err, ErrorObjectDoesNotExist)

(************************ C5 ***********************************************)
\* C5 as claimed: Rename(from, to) with an object at from succeeds whatever
\* is at to, and to then holds from's bytes and from is absent; with nothing
\* at from it fails with ObjectDoesNotExist and changes nothing.
C5_RenameUnconditional ==
  last.op = "Rename" =>
     LET n == NodeOf(last.from)
         m == NodeOf(last.loc)
     IN  /\ pre[n].kind = "file" =>
               (last.err = Nil /\ fs[m] = pre[n] /\ fs[n].kind = "none")
         /\ pre[n].kind = "none" =>
               (Is(last.err, ErrorObjectDoesNotExist) /\ fs = pre)

\* C5, amended: Rename(from, to) with an object at from and to another
\* location succeeds exactly when to is not a directory and the directory to
\* lies in exists, whether or not an object exists at to; to then holds
\* exactly from's bytes, nothing is at from and the rest is as before.
\* Rename(from, from) of an object succeeds and changes nothing.  A Rename
\* that fails, as every Rename with nothing at from does, fails with an error
\* of kind ObjectDoesNotExist and changes nothing.
C5_RenameMoves ==
  last.op = "Rename" =>
     LET n == NodeOf(last.from)
         m == NodeOf(last.loc)
     IN  /\ (pre[n].kind = "file" /\ n # m) =>
               /\ last.err = Nil <=> (pre[m].kind # "dir" /\ pre[Parent(m)].kind = "dir")
               /\ last.err = Nil =>
                     (fs[m] = pre[n] /\ fs[n] = None /\ SameExcept(fs, pre, {n, m}))
         /\ (pre[n].kind = "file" /\ n = m) => (last.err = Nil /\ fs = pre)
         /\ pre[n].kind = "none" => last.err # Nil
         /\ last.err # Nil => (Is(last.err, ErrorObjectDoesNotExist) /\ fs = pre)

C5_Witness ==
  /\ last.op = "Rename"
  /\ last.err = Nil
  /\ pre[NodeOf(last.from)].kind = "file"
  /\ pre[NodeOf(last.loc)].kind = "file"
  /\ pre[NodeOf(last.loc)].data # pre[NodeOf(last.from)].data
  /\ fs[NodeOf(last.loc)] = pre[NodeOf(last.from)]

(************************ C6 ***********************************************)
\* Get and Head answer at location as where nothing is
Gone(f, location) ==
  /\ StoreGet(f, BaseURI, location).err # Nil
  /\ \A d \in DirSizes : Is(StoreHead(f, BaseURI, location, d).err, ErrorObjectDoesNotExist)

\* C6 as claimed: Delete of an existing object succeeds, and Get and Head
\* then fail as for an absent object; Delete where no object exists fails
\* with DeleteObject and changes nothing.
C6_DeleteObjectOnly ==
  last.op = "Delete" =>
     LET n == NodeOf(last.loc)
     IN  /\ pre[n].kind = "file" => (last.err = Nil /\ Gone(fs, last.loc))
         /\ pre[n].kind # "file" => (Is(last.err, ErrorDeleteObject) /\ fs = pre)

\* C6, amended: Delete of an existing object, or of an empty directory,
\* succeeds and removes that one entry, and Get and Head then fail as where
\* nothing is; Delete where nothing exists, or of a directory that is not
\* empty, fails with DeleteObject wrapping the cause and changes nothing.
C6_DeleteRemoves ==
  last.op = "Delete" =>
     LET n == NodeOf(last.loc)
         removable == pre[n].kind = "file" \/ (pre[n].kind = "dir" /\ ~HasChildren(pre, n))
     IN  /\ removable =>
               (last.err = Nil /\ Gone(fs, last.loc) /\ fs = [pre EXCEPT ![n] = None])
         /\ ~removable =>
               (Is(last.err, ErrorDeleteObject) /\ last.err # {ErrorDeleteObject} /\ fs = pre)

C6_Witness ==
  /\ last.op = "Delete"
  /\ last.err = Nil
  /\ pre[NodeOf(last.loc)].kind = "file"
  /\ Gone(fs, last.loc)

(************************ C7 ***********************************************)
\* C7: Head on a Path that was never written, and is no directory a Put
\* made, returns an error of kind ObjectDoesNotExist, after any calls that
\* do not write that Path.
C7_HeadNeverWritten ==
  (last.op = "Head" /\ NodeOf(last.loc) \notin written) =>
     Is(last.err, ErrorObjectDoesNotExist)

(************************ C8 ***********************************************)
\* C8: Head on a directory returns ObjectIsDir with metadata whose Size is 0
\* and whose Location ends with a path separator.
C8_HeadDirectoryConvention ==
  (last.op = "Head" /\ pre[NodeOf(last.loc)].kind = "dir") =>
     /\ last.err = {ErrorObjectIsDir}
     /\ last.meta.Size = 0
     /\ last.meta.Location # <<>>
     /\ IsPathSeparator(last.meta.Location[Len(last.meta.Location)])

(************************ C9 ***********************************************)
\* C9: every Location Head and List return is relative to the store's base:
\* Head(p) of an existing object returns Location p, and no returned
\* Location begins with BaseURI's raw string.
C9_LocationsRelative ==
  /\ (last.op = "Head" /\ last.err = Nil) => last.meta.Location = last.loc
  /\ last.op = "Head" => ~HasPrefix(last.meta.Location, BaseURI)
  /\ last.op = "List" => \A m \in Range(last.out) : ~HasPrefix(m.Location, BaseURI)

(************************ C10 **********************************************)
\* the entry List gives for node k of tree f
EntryOf(f, k) ==
  IF f[k].kind = "dir" THEN [Location |-> Raw(k) \o <<Separator>>, Size |-> 0]
  ELSE [Location |-> Raw(k), Size |-> Len(f[k].data)]

\* the nodes under directory d whose name in d starts with namePrefix
Matching(f, d, namePrefix) ==
  {k \in Nodes : /\ f[k].kind # "none"
                 /\ IsUnder(k, d)
                 /\ HasPrefix(k[Len(d) + 1], namePrefix)}

\* C10: List(prefix) with a name-prefix filters at the top level only: the
\* result is, as a set and without repetition, the entries of the prefix's
\* directory whose name starts with the name-prefix and every entry at every
\* depth below those that are directories; every Location starts with prefix.
C10_ListFiltersTopLevel ==
  (last.op = "List" /\ Split(last.loc).file # <<>>) =>
     LET d == Components(Split(last.loc).dir)
         want == {EntryOf(fs, k) : k \in Matching(fs, d, Split(last.loc).file)}
     IN  /\ Range(last.out) = want
         /\ Len(last.out) = Cardinality(want)
         /\ \A m \in Range(last.out) : HasPrefix(m.Location, last.loc)
         /\ last.err # Nil <=> \E i \in 0..Len(d) : fs[Prefix(d, i)].kind = "file"

C10_Witness ==
  /\ last.op = "List"
  /\ last.err = Nil
  /\ Split(last.loc).file # <<>>
  /\ \E k \in Nodes \ {<<>>} :
        /\ Len(k) > Len(Components(Split(last.loc).dir)) + 1
        /\ ~HasPrefix(k[Len(k)], Split(last.loc).file)
        /\ EntryOf(fs, k) \in Range(last.out)
  /\ \E k \in Nodes \ {<<>>} :
        /\ fs[k].kind # "none"
        /\ Parent(k) = Components(Split(last.loc).dir)
        /\ ~HasPrefix(k[Len(k)], Split(last.loc).file)
        /\ EntryOf(fs, k) \notin Range(last.out)

(************************ C11 **********************************************)
\* the node a Location names
NodeAt(location) == Components(location)

EndsWithSeparator(s) == s # <<>> /\ IsPathSeparator(s[Len(s)])

\* C11: in every List result an entry of a directory has Size 0 and a
\* Location ending with a path separator, an entry of a leaf object has its
\* byte size and a Location not ending with a separator; listing the prefix
\* "ab/" when the files "ab/ab" and "ab/a/a" exist returns entries for
\* "ab/ab", "ab/a/" (a directory, size 0) and "ab/a/a".
C11_ListDirectoryConvention ==
  last.op = "List" =>
     /\ \A m \in Range(last.out) :
           /\ NodeAt(m.Location) \in Nodes
           /\ fs[NodeAt(m.Location)].kind # "none"
           /\ fs[NodeAt(m.Location)].kind = "dir" =>
                 (m.Size = 0 /\ EndsWithSeparator(m.Location))
           /\ fs[NodeAt(m.Location)].kind = "file" =>
                 (m.Size = Len(fs[NodeAt(m.Location)].data) /\ ~EndsWithSeparator(m.Location))
     /\ ( /\ last.loc = <<"a", "b", "/">>
          /\ fs[<< <<"a", "b">>, <<"a", "b">> >>].kind = "file"
          /\ fs[<< <<"a", "b">>, <<"a">>, <<"a">> >>].kind = "file" ) =>
           {[Location |-> <<"a", "b", "/", "a", "b">>,
             Size |-> Len(fs[<< <<"a", "b">>, <<"a", "b">> >>].data)],
            [Location |-> <<"a", "b", "/", "a", "/">>, Size |-> 0],
            [Location |-> <<"a", "b", "/", "a", "/", "a">>,
             Size |-> Len(fs[<< <<"a", "b">>, <<"a">>, <<"a">> >>].data)]}
              \subseteq Range(last.out)

C11_Witness ==
  /\ last.op = "List"
  /\ last.loc = <<"a", "b", "/">>
  /\ last.err = Nil
  /\ [Location |-> <<"a", "b", "/", "a", "b">>, Size |-> 1] \in Range(last.out)
  /\ [Location |-> <<"a", "b", "/", "a", "/">>, Size |-> 0] \in Range(last.out)
  /\ [Location |-> <<"a", "b", "/", "a", "/", "a">>, Size |-> 1] \in Range(last.out)

(************************ C12 **********************************************)
\* the entries of what exists below node d in tree f
EntriesBelow(f, d) == {EntryOf(f, k) : k \in {n \in Nodes : IsUnder(n, d) /\ f[n].kind # "none"}}

\* C12: List(prefix) with a prefix that ends with a separator and names an
\* existing directory returns every entry at every depth below the
\* directory and exactly one entry for the directory itself, with Size 0
\* and the prefix as its Location; List of the empty prefix returns every
\* entry of the store and no entry for the root.
C12_ListAddsDirectoryItself ==
  last.op = "List" =>
     /\ (EndsWithSeparator(last.loc) /\ fs[NodeAt(last.loc)].kind = "dir") =>
           /\ last.err = Nil
           /\ [Location |-> last.loc, Size |-> 0] \notin EntriesBelow(fs, NodeAt(last.loc))
           /\ Range(last.out) =
                 EntriesBelow(fs, NodeAt(last.loc)) \cup {[Location |-> last.loc, Size |-> 0]}
           /\ Len(last.out) = Cardinality(EntriesBelow(fs, NodeAt(last.loc))) + 1
     /\ last.loc = <<>> =>
           /\ last.err = Nil
           /\ Range(last.out) = EntriesBelow(fs, <<>>)
           /\ Len(last.out) = Cardinality(EntriesBelow(fs, <<>>))

C12_Witness ==
  /\ last.op = "List"
  /\ last.loc = <<"a", "b", "/">>
  /\ fs[<< <<"a", "b">>, <<"a">>, <<"a">> >>].kind = "file"
  /\ [Location |-> <<"a", "b", "/">>, Size |-> 0] \in Range(last.out)
  /\ Len(last.out) = 3

(************************ C13 **********************************************)
\* C13: List(prefix) where the directory of the prefix does not exist
\* returns an empty result and no error.
C13_ListMissingDirectoryIsEmpty ==
  (last.op = "List" /\ At(fs, NodeAt(Split(last.loc).dir)).kind = "none") =>
     (last.err = Nil /\ last.out = <<>>)

(************************ C14 **********************************************)
\* C14: a StateStore holds one CommitState: Get() on a freshly initialized
\* StateStore fails with StateIsEmpty, and after successful Put calls Get()
\* returns the CommitState of the most recent of them; after one
\* Put({Version: 5}), Get() returns {Version: 5}.
C14_GetReturnsLastPut ==
  got.called =>
     /\ puts = <<>> => Is(got.err, ErrorStateIsEmpty)
     /\ puts # <<>> => (got.err = Nil /\ got.state = puts[Len(puts)])
     /\ puts = <<[Version |-> 5]>> => got.state = [Version |-> 5]

C14_Witness ==
  /\ got.called
  /\ Len(puts) = 2
  /\ puts[1].Version # 5
  /\ puts[2].Version = 5
  /\ got.state = [Version |-> 5]
  /\ slot = <<[Version |-> 5]>>

(************************ C15 **********************************************)
\* C15: with nothing at to, RenameIfNotExists(from, to) run alone has the
\* result and the effect of Rename(from, to); with no object at from it
\* fails with ObjectDoesNotExist, not VersionAlreadyExists, and to is still
\* absent.  (What Rename itself does with an object at from is C5.)
C15_BehavesLikeRename ==
  (last.op = "RenameIfNotExists" /\ pre[NodeOf(last.loc)].kind = "none") =>
     /\ [fs |-> fs, err |-> last.err] = StoreRename(pre, BaseURI, last.from, last.loc)
     /\ pre[NodeOf(last.from)].kind = "none" =>
           /\ Is(last.err, ErrorObjectDoesNotExist)
           /\ ~Is(last.err, ErrorVersionAlreadyExists)
           /\ fs[NodeOf(last.loc)].kind = "none"

(************************ C16 **********************************************)
\* C16: Head returns normally for every location in every state, with
\* metadata or with ObjectDoesNotExist or ObjectIsDir, also when a leaf
\* object lies above the location; RenameIfNotExists to such a location
\* returns an error value too.  Neither ends in a panic.
C16_HeadNeverCrashes ==
  /\ last.op = "Head" =>
        /\ ~Is(last.err, Panic)
        /\ \/ last.err = Nil
           \/ Is(last.err, ErrorObjectDoesNotExist)
           \/ Is(last.err, ErrorObjectIsDir)
  /\ last.op = "RenameIfNotExists" => ~Is(last.err, Panic)

(************************ C17 **********************************************)
\* C17: Get, Head and List leave the whole store as it was, whether they
\* succeed or fail, and so does a RenameIfNotExists that fails with
\* VersionAlreadyExists.
C17_ReadOnly ==
  /\ last.op \in {"Get", "Head", "List"} => fs = pre
  /\ (last.op = "RenameIfNotExists" /\ Is(last.err, ErrorVersionAlreadyExists)) => fs = pre

C17_Witness ==
  /\ last.op = "RenameIfNotExists"
  /\ Is(last.err, ErrorVersionAlreadyExists)
  /\ pre[NodeOf(last.from)].kind = "file"
  /\ pre[NodeOf(last.loc)].kind = "file"
  /\ pre[NodeOf(last.loc)].data # pre[NodeOf(last.from)].data
  /\ fs[NodeOf(last.loc)] = pre[NodeOf(last.loc)]
  /\ fs[NodeOf(last.from)] = pre[NodeOf(last.from)]

(************************ C18 **********************************************)
\* the entry of the directory at node k
DirectoryEntry(k) == [Location |-> Raw(k) \o <<Separator>>, Size |-> 0]

\* C18: Delete(location) removes the one entry at location and nothing
\* else: every other object and directory is as before, and the
\* directories above location stay, so a List of the top directory of
\* location still returns an entry for each of them.
C18_DeleteLeavesDirectories ==
  last.op = "Delete" =>
     LET n == NodeOf(last.loc)
     IN  /\ SameExcept(fs, pre, {n})
         /\ last.err = Nil =>
               /\ fs[n] = None
               /\ \A i \in 1..(Len(n) - 1) :
                     /\ fs[Prefix(n, i)].kind = "dir"
                     /\ DirectoryEntry(Prefix(n, i)) \in
                           Range(StoreList(fs, BaseURI, Raw(Prefix(n, 1)) \o <<Separator>>).out)

C18_Witness ==
  /\ last.op = "Delete"
  /\ last.err = Nil
  /\ last.loc = <<"a", "b", "/", "a", "/", "a">>
  /\ pre[NodeOf(last.loc)].kind = "file"
  /\ ~HasChildren(fs, << <<"a", "b">>, <<"a">> >>)
  /\ ~HasChildren(pre, << <<"a", "b">>, <<"a", "b">> >>) /\ fs[<< <<"a", "b">>, <<"a", "b">> >>].kind = "none"
  /\ Range(StoreList(fs, BaseURI, <<"a", "b", "/">>).out) =
        {DirectoryEntry(<< <<"a", "b">> >>), DirectoryEntry(<< <<"a", "b">>, <<"a">> >>)}

====
